---- MODULE Spec2Model ----
(***************************************************************************)
(* A model of two parts of the GPU support of the VM:                      *)
(*   - the HSAIL TLAB donation (gpu_hsail_Tlab.hpp): HSAILTlabInfo,        *)
(*     HSAILAllocationInfo's constructor and postKernelCleanup;            *)
(*   - the PTX kernel driver (gpu_ptx.cpp): generate_kernel,               *)
(*     execute_kernel_from_vm, execute_warp.                               *)
(* The two parts share no state; SpecTlab runs the first, SpecPtx the      *)
(* second.                                                                 *)
(***************************************************************************)
EXTENDS Integers, Sequences, FiniteSets, TLC

VARIABLES
  \* ---- HSAIL TLAB donation ----
  phase,              \* "start" | "primed" | "cleaned": where the allocation info is
  tlabs,              \* donor thread -> its ThreadLocalAllocBuffer [start, top, end]
  heapTop,            \* next address Universe::heap()->allocate_new_tlab hands out
  num_donor_threads,  \* _num_donor_threads
  max_tlab_infos,     \* the arena's capacity: _tlab_infos_pool_end - _tlab_infos_pool_start
  pool_next,          \* _tlab_infos_pool_next - _tlab_infos_pool_start
  pool,               \* the HSAILTlabInfo records written so far; pool[i + 1] is record i
  cur_tlab_infos,     \* _cur_tlab_infos: donor thread -> record index
  oob,                \* record indices written outside the arena (undefined behaviour)
  junk,               \* what the arena's memory held when it was allocated
  ctor_locals,        \* the constructor's locals new_tlab_size and heap_bytes_free, and
                      \* its calls of getNewTlabForDonorThread
  overflowAmount,     \* postKernelCleanup's local: how far the cursor was past the end
  anyOverflows,       \* postKernelCleanup's local, as it was when the call returned
  bytesAllocated,     \* postKernelCleanup's local, as it was when the call returned
  overflows,          \* the host's aggregate overflow counter (Hsail::kernelStats)
  cleanupLog,         \* what the last postKernelCleanup did, one entry per region visited
  gpuOps,             \* number of GPU-side steps taken in this kernel
  cleanups,           \* number of postKernelCleanup calls so far
  \* ---- PTX kernel driver ----
  device_context,     \* gpu::Ptx::_device_context: a context id, 0 for NULL
  live_contexts,      \* the driver's contexts created and not destroyed
  context_stack,      \* the driver's context stack of the host thread; its top is current
  ctx_count,          \* contexts created so far; context ids are 1..ctx_count
  functions,          \* function handles generate_kernel returned (the id of their context)
  device_buffers,     \* the driver's device allocations, [id, size]
  buf_count,          \* device allocations made so far
  destroy_calls,      \* context id -> cuCtxDestroy calls issued on it
  last,               \* the last call of the interface: arguments, driver calls, result
  calls_made,         \* calls of the interface so far
  \* ---- PTX driver binding and device session ----
  fn_ptrs,            \* the static entry-point pointers _cuda_cu_*: TRUE when not NULL
  cu_device,          \* gpu::Ptx::_cu_device
  dev_last,           \* the last call of probe_linkage, initialize_gpu or total_cores
  dev_calls           \* such calls so far

tlabVars == <<phase, tlabs, heapTop, num_donor_threads, max_tlab_infos, pool_next, pool,
              cur_tlab_infos, oob, junk, ctor_locals, overflowAmount, anyOverflows, bytesAllocated, overflows, cleanupLog,
              gpuOps, cleanups>>

ptxVars == <<device_context, live_contexts, context_stack, ctx_count, functions,
             device_buffers, buf_count, destroy_calls, last, calls_made>>

devVars == <<fn_ptrs, cu_device, dev_last, dev_calls>>

vars == <<tlabVars, ptxVars, devVars>>

(***************************************************************************)
(* Bounds of the model.                                                    *)
(***************************************************************************)
MaxDonors == 2        \* donor threads in the donor-thread array
InitTlabWords == 1    \* words between start and end of a TLAB a thread owns at entry
NewTlabWords == 3     \* the non-zero value of ThreadLocalAllocBuffer::compute_size(0)
MaxFreeTlabs == 3     \* unsafe_max_tlab_alloc ranges over 0..MaxFreeTlabs new-TLAB sizes
HugeHeapFree == 400   \* ... and one value large enough for the 64x cap to decide
MaxGpuOps == 3        \* GPU-side steps per kernel
MaxCleanups == 2      \* postKernelCleanup calls
MaxContexts == 2      \* generate_kernel calls that reach cuCtxCreate
MaxCalls == 4         \* calls of generate_kernel, execute_kernel_from_vm, execute_warp
MaxArgSlots == 2      \* pointer-sized slots of the argument buffer of an execute call
MaxBinds == 2         \* calls of probe_linkage
MaxDevCalls == 2      \* calls of initialize_gpu and total_cores
MaxDevices == 2       \* devices the driver may report
MaxHandle == 1        \* the driver's handle of the device at ordinal 0 is in 0..MaxHandle
MaxMajor == 9         \* compute capability major numbers 0..MaxMajor
MaxMinor == 16        \* compute capability minor numbers 0..MaxMinor
MaxMultiprocessors == 15  \* the largest multiprocessor count reported

(***************************************************************************)
(* Addresses are byte addresses; 0 is NULL. A HeapWord* difference counts  *)
(* words, a (long) cast difference counts bytes.                           *)
(***************************************************************************)
NULL == 0
HeapWordSize == 8
AlignmentReserve == 1

MIN2(a, b) == IF a < b THEN a ELSE b

Donors == 1..MaxDonors
ThreadBase(t) == t * 64 * HeapWordSize
HeapBase == (MaxDonors + 2) * 64 * HeapWordSize

PlusWords(p, w) == p + w * HeapWordSize
WordDiff(p, q) == (p - q) \div HeapWordSize

NullTlab == [start |-> NULL, top |-> NULL, end |-> NULL]

\* ThreadLocalAllocBuffer::fill(start, top, new_size): end is new_size words after
\* start, less the alignment reserve.
TlabFill(start, top, new_size) ==
  [start |-> start, top |-> top, end |-> PlusWords(start, new_size - AlignmentReserve)]

\* ThreadLocalAllocBuffer::make_parsable(retire): a buffer that has an end is filled
\* up and, with retire, reset to NULL.
TlabMakeParsable(tlab, retire) ==
  IF tlab.end # NULL /\ retire THEN NullTlab ELSE tlab

\* ThreadLocalAllocBuffer::clear_before_allocation
TlabClearBeforeAllocation(tlab) == TlabMakeParsable(tlab, TRUE)

\* The buffers a donor thread can own when the allocation info is constructed: none,
\* an unused one, a used-up one.
InitialTlabs(t) ==
  {NullTlab} \cup
  {[start |-> ThreadBase(t), top |-> PlusWords(ThreadBase(t), k),
    end |-> PlusWords(ThreadBase(t), InitTlabWords)] : k \in {0, InitTlabWords}}

\* What uninitialised or overwritten memory of the C heap may hold.
JunkValues == {NULL, HeapWordSize}

(***************************************************************************)
(* HSAILTlabInfo::initialize. _last_good_top is not assigned: it keeps     *)
(* what the memory held (fresh).                                           *)
(***************************************************************************)
initialize(start, top, end, donorThread, fresh) ==
  [start |-> start, top |-> top, end |-> end, last_good_top |-> fresh,
   original_top |-> top, donor_thread |-> donorThread]

\* A record written past the arena's end and then overwritten by the memory's owner.
ClobberedInfo(donorThread, fresh) ==
  [start |-> HeapWordSize, top |-> fresh, end |-> NULL, last_good_top |-> fresh,
   original_top |-> NULL, donor_thread |-> donorThread]

(***************************************************************************)
(* HSAILAllocationInfo::HSAILAllocationInfo                                *)
(***************************************************************************)
MaxInfosPerDonor == 64
FallbackInfosPerDonor == 8

\* The capacity without the 64-per-donor cap.
ComputeMaxTlabInfosUncapped(n, new_tlab_size, heap_bytes_free) ==
  IF new_tlab_size # 0
    THEN heap_bytes_free \div new_tlab_size
    ELSE FallbackInfosPerDonor * n

ComputeMaxTlabInfos(n, new_tlab_size, heap_bytes_free) ==
  IF new_tlab_size # 0
    THEN MIN2(heap_bytes_free \div new_tlab_size, MaxInfosPerDonor * n)
    ELSE FallbackInfosPerDonor * n

RefillOutcomes == {"size0", "null", "ok"}

\* getNewTlabForDonorThread: [tlab, heapTop, success] after the call. outcome says
\* what compute_size(0) and allocate_new_tlab answer.
getNewTlabForDonorThread(tlab, top, outcome) ==
  LET cleared == TlabClearBeforeAllocation(tlab)
      new_tlab_size == IF outcome = "size0" THEN 0 ELSE NewTlabWords
      tlab_start == IF outcome = "ok" THEN top ELSE NULL
  IN  IF new_tlab_size = 0 THEN [tlab |-> cleared, heapTop |-> top, success |-> FALSE]
      ELSE IF tlab_start = NULL THEN [tlab |-> cleared, heapTop |-> top, success |-> FALSE]
      ELSE [tlab |-> TlabFill(tlab_start, tlab_start, new_tlab_size),
            heapTop |-> PlusWords(top, new_tlab_size), success |-> TRUE]

\* The constructor's donor-thread loop from thread i on. st = [tlabs, heapTop, pool,
\* cur, oob, refills], refills being the calls of getNewTlabForDonorThread; refill, fresh (what the arena's memory holds) and clobber (whether
\* what is written outside the arena is overwritten) are the environment's.
RECURSIVE PrimeDonors(_, _, _, _, _, _, _)
PrimeDonors(i, n, cap, refill, fresh, clobber, st) ==
  IF i > n THEN st
  ELSE
    LET old == st.tlabs[i]
        got == IF old.end = NULL
                 THEN getNewTlabForDonorThread(old, st.heapTop, refill[i])
                 ELSE [tlab |-> old, heapTop |-> st.heapTop, success |-> TRUE]
        tlab == got.tlab
        written == initialize(tlab.start, tlab.top, tlab.end, i, fresh)
        outside == (i - 1) >= cap
        info == IF outside /\ clobber THEN ClobberedInfo(i, fresh) ELSE written
    IN  PrimeDonors(i + 1, n, cap, refill, fresh, clobber,
          [st EXCEPT !.tlabs = [@ EXCEPT ![i] = tlab],
                     !.heapTop = got.heapTop,
                     !.pool = Append(@, info),
                     !.cur = [@ EXCEPT ![i] = i - 1],
                     !.oob = IF outside THEN @ \cup {i - 1} ELSE @,
                     !.refills = IF old.end = NULL
                                   THEN Append(@, [donor |-> i, success |-> got.success])
                                   ELSE @])

HeapFreeValues == {k * NewTlabWords : k \in 0..MaxFreeTlabs} \cup {HugeHeapFree}

Construct ==
  /\ phase = "start"
  /\ \E n \in Donors, size0 \in {0, NewTlabWords}, heap_bytes_free \in HeapFreeValues,
        refill \in [Donors -> RefillOutcomes], fresh \in JunkValues,
        clobber \in BOOLEAN :
       LET cap == ComputeMaxTlabInfos(n, size0, heap_bytes_free)
           st == PrimeDonors(1, n, cap, refill, fresh, clobber,
                   [tlabs |-> tlabs, heapTop |-> heapTop, pool |-> <<>>,
                    cur |-> [t \in Donors |-> 0], oob |-> {}, refills |-> <<>>])
       IN  \* inputs that are not read do not multiply the states
           /\ \A t \in Donors :
                (t > n \/ tlabs[t].end # NULL) => refill[t] = "ok"
           /\ (cap >= n) => ~clobber
           /\ (size0 = 0) => heap_bytes_free \in {0, HugeHeapFree}
           /\ num_donor_threads' = n
           /\ max_tlab_infos' = cap
           /\ pool_next' = n
           /\ tlabs' = st.tlabs
           /\ heapTop' = st.heapTop
           /\ pool' = st.pool
           /\ cur_tlab_infos' = st.cur
           /\ oob' = st.oob
           /\ junk' = fresh
           /\ ctor_locals' = [new_tlab_size |-> size0, heap_bytes_free |-> heap_bytes_free,
                               refills |-> st.refills]
  /\ phase' = "primed"
  /\ UNCHANGED <<overflowAmount, anyOverflows, bytesAllocated, overflows, cleanupLog, gpuOps, cleanups>>
  /\ UNCHANGED <<ptxVars, devVars>>

(***************************************************************************)
(* The GPU side of a kernel, which runs between construction and           *)
(* postKernelCleanup. A work-item bumps the top of its donor's current     *)
(* region; the first one to pass end records the last good top. A donor    *)
(* whose region is unusable takes the next record of the pool by bumping   *)
(* _tlab_infos_pool_next, and fills it in if it lies inside the arena.     *)
(***************************************************************************)
\* A work-item allocates a small object, or one that no region has room for.
AllocWords == {1, NewTlabWords}

Rec(i) == pool[i + 1]
Written == 0..(Len(pool) - 1)

\* A work-item that goes on allocating after the host has reclaimed the regions.
GpuAllocateAfterReclaim ==
  /\ phase \in {"primed", "cleaned"}
  /\ gpuOps < MaxGpuOps
  /\ \E d \in 1..num_donor_threads, words \in AllocWords :
       LET i == cur_tlab_infos[d]
           r == Rec(i)
           newTop == PlusWords(r.top, words)
       IN  /\ i \in Written
           /\ r.start # NULL
           /\ pool' = [pool EXCEPT ![i + 1] =
                        [r EXCEPT !.top = newTop,
                                  !.last_good_top =
                                     IF r.top <= r.end /\ newTop > r.end THEN r.top ELSE @]]
  /\ gpuOps' = gpuOps + 1
  /\ UNCHANGED <<phase, tlabs, heapTop, num_donor_threads, max_tlab_infos, pool_next,
                 cur_tlab_infos, oob, junk, ctor_locals, overflowAmount, anyOverflows, bytesAllocated, overflows, cleanupLog,
                 cleanups>>
  /\ UNCHANGED <<ptxVars, devVars>>

GpuAllocate ==
  /\ phase = "primed"
  /\ gpuOps < MaxGpuOps
  /\ \E d \in 1..num_donor_threads, words \in AllocWords :
       LET i == cur_tlab_infos[d]
           r == Rec(i)
           newTop == PlusWords(r.top, words)
       IN  /\ i \in Written
           /\ r.start # NULL
           /\ pool' = [pool EXCEPT ![i + 1] =
                        [r EXCEPT !.top = newTop,
                                  !.last_good_top =
                                     IF r.top <= r.end /\ newTop > r.end THEN r.top ELSE @]]
  /\ gpuOps' = gpuOps + 1
  /\ UNCHANGED <<phase, tlabs, heapTop, num_donor_threads, max_tlab_infos, pool_next,
                 cur_tlab_infos, oob, junk, ctor_locals, overflowAmount, anyOverflows, bytesAllocated, overflows, cleanupLog,
                 cleanups>>
  /\ UNCHANGED <<ptxVars, devVars>>

GpuReserve ==
  /\ phase = "primed"
  /\ gpuOps < MaxGpuOps
  /\ \E d \in 1..num_donor_threads, gotTlab \in BOOLEAN :
       LET c == cur_tlab_infos[d]
           i == pool_next
           inside == i < max_tlab_infos
           start == IF gotTlab THEN heapTop ELSE NULL
           end == IF gotTlab THEN PlusWords(heapTop, NewTlabWords - AlignmentReserve)
                  ELSE NULL
       IN  /\ c \in Written
           /\ Rec(c).start = NULL \/ Rec(c).top > Rec(c).end
           /\ ~inside => ~gotTlab
           /\ pool_next' = pool_next + 1
           /\ pool' = IF inside THEN Append(pool, initialize(start, start, end, d, junk))
                      ELSE pool
           /\ cur_tlab_infos' = IF inside THEN [cur_tlab_infos EXCEPT ![d] = i]
                                ELSE cur_tlab_infos
           /\ heapTop' = IF inside /\ gotTlab THEN PlusWords(heapTop, NewTlabWords)
                         ELSE heapTop
  /\ gpuOps' = gpuOps + 1
  /\ UNCHANGED <<phase, tlabs, num_donor_threads, max_tlab_infos, oob, junk, ctor_locals, overflowAmount, anyOverflows,
                 bytesAllocated, overflows, cleanupLog, cleanups>>
  /\ UNCHANGED <<ptxVars, devVars>>

\* A kernel whose code leaves a top of its own choosing in a donor's current region:
\* the top is the GPU's to write, and nothing on the host side constrains what it
\* writes or makes it record a last good top. Part of SpecTlabAnyTop only.
GpuStoreTop ==
  /\ phase = "primed"
  /\ gpuOps < MaxGpuOps
  /\ \E d \in 1..num_donor_threads, words \in AllocWords :
       LET i == cur_tlab_infos[d]
           r == Rec(i)
       IN  /\ i \in Written
           /\ r.start # NULL
           /\ pool' = [pool EXCEPT ![i + 1].top = PlusWords(r.end, words)]
  /\ gpuOps' = gpuOps + 1
  /\ UNCHANGED <<phase, tlabs, heapTop, num_donor_threads, max_tlab_infos, pool_next,
                 cur_tlab_infos, oob, junk, ctor_locals, overflowAmount, anyOverflows,
                 bytesAllocated, overflows, cleanupLog, cleanups>>
  /\ UNCHANGED <<ptxVars, devVars>>

(***************************************************************************)
(* HSAILAllocationInfo::postKernelCleanup                                  *)
(***************************************************************************)
\* The iteration bound without the correction of an overflow of the pool.
UnclampedNext(next, end) == next

\* The iteration bound: _tlab_infos_pool_next after the correction of an overflow.
ClampedNext(next, end) == IF next > end THEN end ELSE next

\* The loop body with the bytes of a region counted before its top is rolled back.
CleanupRegionDeltaBeforeRollback(i, st) ==
  LET tlabInfo == st.pool[i + 1]
      donorThread == tlabInfo.donor_thread
      overflowed == tlabInfo.start # NULL /\ tlabInfo.top > tlabInfo.end
      top == IF overflowed THEN tlabInfo.last_good_top ELSE tlabInfo.top
      size == WordDiff(tlabInfo.end, tlabInfo.start) + AlignmentReserve
      filled == TlabFill(tlabInfo.start, top, size)
      tlab == IF overflowed THEN TlabMakeParsable(filled, TRUE) ELSE filled
      delta == tlabInfo.top - tlabInfo.original_top
  IN  IF tlabInfo.start # NULL
        THEN [pool |-> [st.pool EXCEPT ![i + 1].top = top],
              tlabs |-> [st.tlabs EXCEPT ![donorThread] = tlab],
              anyOverflows |-> st.anyOverflows \/ overflowed,
              bytesAllocated |-> st.bytesAllocated + delta,
              log |-> Append(st.log,
                        [index |-> i, donor |-> donorThread, visited |-> TRUE,
                         overflowed |-> overflowed,
                         fill |-> <<tlabInfo.start, top, size>>,
                         make_parsable |-> overflowed,
                         tlab_calls |-> IF overflowed THEN <<"fill", "make_parsable">>
                                        ELSE <<"fill">>,
                         delta |-> delta])]
        ELSE [st EXCEPT !.log = Append(@,
                        [index |-> i, donor |-> donorThread, visited |-> FALSE,
                         overflowed |-> FALSE, fill |-> <<>>,
                         make_parsable |-> FALSE, tlab_calls |-> <<>>, delta |-> 0])]

\* The loop body without the test for a NULL start.
CleanupRegionIgnoringNullStart(i, st) ==
  LET tlabInfo == st.pool[i + 1]
      donorThread == tlabInfo.donor_thread
      overflowed == tlabInfo.top > tlabInfo.end
      top == IF overflowed THEN tlabInfo.last_good_top ELSE tlabInfo.top
      size == WordDiff(tlabInfo.end, tlabInfo.start) + AlignmentReserve
      filled == TlabFill(tlabInfo.start, top, size)
      tlab == IF overflowed THEN TlabMakeParsable(filled, TRUE) ELSE filled
      delta == top - tlabInfo.original_top
  IN  [pool |-> [st.pool EXCEPT ![i + 1].top = top],
       tlabs |-> [st.tlabs EXCEPT ![donorThread] = tlab],
       anyOverflows |-> st.anyOverflows \/ overflowed,
       bytesAllocated |-> st.bytesAllocated + delta,
       log |-> Append(st.log,
                 [index |-> i, donor |-> donorThread, visited |-> TRUE,
                  overflowed |-> overflowed,
                  fill |-> <<tlabInfo.start, top, size>>,
                  make_parsable |-> overflowed,
                  tlab_calls |-> IF overflowed THEN <<"fill", "make_parsable">>
                                 ELSE <<"fill">>,
                  delta |-> delta])]

\* The loop body retiring the donor's buffer before the write-back, not after it.
CleanupRegionRetireBeforeFill(i, st) ==
  LET tlabInfo == st.pool[i + 1]
      donorThread == tlabInfo.donor_thread
      overflowed == tlabInfo.start # NULL /\ tlabInfo.top > tlabInfo.end
      top == IF overflowed THEN tlabInfo.last_good_top ELSE tlabInfo.top
      size == WordDiff(tlabInfo.end, tlabInfo.start) + AlignmentReserve
      tlab == TlabFill(tlabInfo.start, top, size)
      delta == top - tlabInfo.original_top
  IN  IF tlabInfo.start # NULL
        THEN [pool |-> [st.pool EXCEPT ![i + 1].top = top],
              tlabs |-> [st.tlabs EXCEPT ![donorThread] = tlab],
              anyOverflows |-> st.anyOverflows \/ overflowed,
              bytesAllocated |-> st.bytesAllocated + delta,
              log |-> Append(st.log,
                        [index |-> i, donor |-> donorThread, visited |-> TRUE,
                         overflowed |-> overflowed,
                         fill |-> <<tlabInfo.start, top, size>>,
                         make_parsable |-> overflowed,
                         tlab_calls |-> IF overflowed THEN <<"make_parsable", "fill">>
                                        ELSE <<"fill">>,
                         delta |-> delta])]
        ELSE [st EXCEPT !.log = Append(@,
                        [index |-> i, donor |-> donorThread, visited |-> FALSE,
                         overflowed |-> FALSE, fill |-> <<>>,
                         make_parsable |-> FALSE, tlab_calls |-> <<>>, delta |-> 0])]

\* The loop body passing the region's size to fill without the alignment reserve.
CleanupRegionSizeWithoutReserve(i, st) ==
  LET tlabInfo == st.pool[i + 1]
      donorThread == tlabInfo.donor_thread
      overflowed == tlabInfo.start # NULL /\ tlabInfo.top > tlabInfo.end
      top == IF overflowed THEN tlabInfo.last_good_top ELSE tlabInfo.top
      size == WordDiff(tlabInfo.end, tlabInfo.start)
      filled == TlabFill(tlabInfo.start, top, size)
      tlab == IF overflowed THEN TlabMakeParsable(filled, TRUE) ELSE filled
      delta == top - tlabInfo.original_top
  IN  IF tlabInfo.start # NULL
        THEN [pool |-> [st.pool EXCEPT ![i + 1].top = top],
              tlabs |-> [st.tlabs EXCEPT ![donorThread] = tlab],
              anyOverflows |-> st.anyOverflows \/ overflowed,
              bytesAllocated |-> st.bytesAllocated + delta,
              log |-> Append(st.log,
                        [index |-> i, donor |-> donorThread, visited |-> TRUE,
                         overflowed |-> overflowed,
                         fill |-> <<tlabInfo.start, top, size>>,
                         make_parsable |-> overflowed,
                         tlab_calls |-> IF overflowed THEN <<"fill", "make_parsable">>
                                        ELSE <<"fill">>,
                         delta |-> delta])]
        ELSE [st EXCEPT !.log = Append(@,
                        [index |-> i, donor |-> donorThread, visited |-> FALSE,
                         overflowed |-> FALSE, fill |-> <<>>,
                         make_parsable |-> FALSE, tlab_calls |-> <<>>, delta |-> 0])]

\* The loop body leaving alone a donor buffer that an earlier region has retired.
CleanupRegionKeepingRetired(i, st) ==
  LET tlabInfo == st.pool[i + 1]
      donorThread == tlabInfo.donor_thread
      overflowed == tlabInfo.start # NULL /\ tlabInfo.top > tlabInfo.end
      top == IF overflowed THEN tlabInfo.last_good_top ELSE tlabInfo.top
      size == WordDiff(tlabInfo.end, tlabInfo.start) + AlignmentReserve
      filled == TlabFill(tlabInfo.start, top, size)
      retired == \E k \in 1..Len(st.log) :
                   st.log[k].donor = donorThread /\ st.log[k].overflowed
      tlab == IF retired THEN st.tlabs[donorThread]
              ELSE IF overflowed THEN TlabMakeParsable(filled, TRUE) ELSE filled
      delta == top - tlabInfo.original_top
  IN  IF tlabInfo.start # NULL
        THEN [pool |-> [st.pool EXCEPT ![i + 1].top = top],
              tlabs |-> [st.tlabs EXCEPT ![donorThread] = tlab],
              anyOverflows |-> st.anyOverflows \/ overflowed,
              bytesAllocated |-> st.bytesAllocated + delta,
              log |-> Append(st.log,
                        [index |-> i, donor |-> donorThread, visited |-> TRUE,
                         overflowed |-> overflowed,
                         fill |-> <<tlabInfo.start, top, size>>,
                         make_parsable |-> overflowed,
                         tlab_calls |-> IF overflowed THEN <<"fill", "make_parsable">>
                                        ELSE <<"fill">>,
                         delta |-> delta])]
        ELSE [st EXCEPT !.log = Append(@,
                        [index |-> i, donor |-> donorThread, visited |-> FALSE,
                         overflowed |-> FALSE, fill |-> <<>>,
                         make_parsable |-> FALSE, tlab_calls |-> <<>>, delta |-> 0])]

\* The loop body retiring the donor buffer whether or not the region overflowed.
CleanupRegionAlwaysRetiring(i, st) ==
  LET tlabInfo == st.pool[i + 1]
      donorThread == tlabInfo.donor_thread
      overflowed == tlabInfo.start # NULL /\ tlabInfo.top > tlabInfo.end
      top == IF overflowed THEN tlabInfo.last_good_top ELSE tlabInfo.top
      size == WordDiff(tlabInfo.end, tlabInfo.start) + AlignmentReserve
      filled == TlabFill(tlabInfo.start, top, size)
      tlab == TlabMakeParsable(filled, TRUE)
      delta == top - tlabInfo.original_top
  IN  IF tlabInfo.start # NULL
        THEN [pool |-> [st.pool EXCEPT ![i + 1].top = top],
              tlabs |-> [st.tlabs EXCEPT ![donorThread] = tlab],
              anyOverflows |-> st.anyOverflows \/ overflowed,
              bytesAllocated |-> st.bytesAllocated + delta,
              log |-> Append(st.log,
                        [index |-> i, donor |-> donorThread, visited |-> TRUE,
                         overflowed |-> overflowed,
                         fill |-> <<tlabInfo.start, top, size>>,
                         make_parsable |-> TRUE,
                         tlab_calls |-> <<"fill", "make_parsable">>,
                         delta |-> delta])]
        ELSE [st EXCEPT !.log = Append(@,
                        [index |-> i, donor |-> donorThread, visited |-> FALSE,
                         overflowed |-> FALSE, fill |-> <<>>,
                         make_parsable |-> FALSE, tlab_calls |-> <<>>, delta |-> 0])]

\* The loop body for record i. st = [pool, tlabs, anyOverflows, bytesAllocated, log].
CleanupRegion(i, st) ==
  LET tlabInfo == st.pool[i + 1]
      donorThread == tlabInfo.donor_thread
      overflowed == tlabInfo.start # NULL /\ tlabInfo.top > tlabInfo.end
      top == IF overflowed THEN tlabInfo.last_good_top ELSE tlabInfo.top
      size == WordDiff(tlabInfo.end, tlabInfo.start) + AlignmentReserve
      filled == TlabFill(tlabInfo.start, top, size)
      tlab == IF overflowed THEN TlabMakeParsable(filled, TRUE) ELSE filled
      delta == top - tlabInfo.original_top
  IN  IF tlabInfo.start # NULL
        THEN [pool |-> [st.pool EXCEPT ![i + 1].top = top],
              tlabs |-> [st.tlabs EXCEPT ![donorThread] = tlab],
              anyOverflows |-> st.anyOverflows \/ overflowed,
              bytesAllocated |-> st.bytesAllocated + delta,
              log |-> Append(st.log,
                        [index |-> i, donor |-> donorThread, visited |-> TRUE,
                         overflowed |-> overflowed,
                         fill |-> <<tlabInfo.start, top, size>>,
                         make_parsable |-> overflowed,
                         tlab_calls |-> IF overflowed THEN <<"fill", "make_parsable">>
                                        ELSE <<"fill">>,
                         delta |-> delta])]
        ELSE [st EXCEPT !.log = Append(@,
                        [index |-> i, donor |-> donorThread, visited |-> FALSE,
                         overflowed |-> FALSE, fill |-> <<>>,
                         make_parsable |-> FALSE, tlab_calls |-> <<>>, delta |-> 0])]

RECURSIVE CleanupLoop(_, _, _)
CleanupLoop(i, next, st) ==
  IF i < next THEN CleanupLoop(i + 1, next, CleanupRegion(i, st)) ELSE st

\* Lines 206-208: the increment of the host's counter is commented out.
IncOverflows(any, count) == count

PostKernelCleanup ==
  /\ phase \in {"primed", "cleaned"}
  /\ cleanups < MaxCleanups
  /\ LET next == ClampedNext(pool_next, max_tlab_infos)
         st == CleanupLoop(0, next,
                 [pool |-> pool, tlabs |-> tlabs, anyOverflows |-> FALSE,
                  bytesAllocated |-> 0, log |-> <<>>])
     IN  /\ overflowAmount' = pool_next - next
         /\ pool_next' = next
         /\ pool' = st.pool
         /\ tlabs' = st.tlabs
         /\ anyOverflows' = st.anyOverflows
         /\ bytesAllocated' = st.bytesAllocated
         /\ cleanupLog' = st.log
         /\ overflows' = IncOverflows(st.anyOverflows, overflows)
  /\ phase' = "cleaned"
  /\ cleanups' = cleanups + 1
  /\ UNCHANGED <<heapTop, num_donor_threads, max_tlab_infos, cur_tlab_infos, oob, junk, ctor_locals,
                 gpuOps>>
  /\ UNCHANGED <<ptxVars, devVars>>

InitTlab ==
  /\ phase = "start"
  /\ tlabs \in [Donors -> UNION {InitialTlabs(t) : t \in Donors}]
  /\ \A t \in Donors : tlabs[t] \in InitialTlabs(t)
  /\ heapTop = HeapBase
  /\ num_donor_threads = 0
  /\ max_tlab_infos = 0
  /\ pool_next = 0
  /\ pool = <<>>
  /\ cur_tlab_infos = [t \in Donors |-> 0]
  /\ oob = {}
  /\ junk = NULL
  /\ ctor_locals = [new_tlab_size |-> 0, heap_bytes_free |-> 0, refills |-> <<>>]
  /\ overflowAmount = 0
  /\ anyOverflows = FALSE
  /\ bytesAllocated = 0
  /\ overflows = 0
  /\ cleanupLog = <<>>
  /\ gpuOps = 0
  /\ cleanups = 0

(***************************************************************************)
(* Claims about the TLAB donation, checked under SpecTlab.                 *)
(***************************************************************************)
CleanupStep == cleanups' = cleanups + 1
InArena(i) == i < max_tlab_infos
Overflowed(r) == r.start # NULL /\ r.top > r.end

\* C1: for a region of the arena with non-null start whose top is beyond its end when
\* postKernelCleanup runs, after the call the region's top is its last good top and
\* the host's overflow counter has grown by exactly one.
C1_RollbackAndCount ==
  [][CleanupStep =>
       \A i \in Written :
         (InArena(i) /\ Overflowed(Rec(i))) =>
           /\ pool'[i + 1].top = Rec(i).last_good_top
           /\ overflows' = overflows + 1]_vars

\* The part of C1 about the region alone.
C1_Rollback ==
  [][CleanupStep =>
       \A i \in Written :
         (InArena(i) /\ Overflowed(Rec(i))) => pool'[i + 1].top = Rec(i).last_good_top]_vars

\* C2: construction leaves exactly one current region per donor thread, entry i that
\* of donor thread i, each either with start <= original top <= end and top at the
\* original top, or the unprimed sentinel with NULL start, top and end.
Ordered(r) == r.start <= r.original_top /\ r.original_top <= r.end /\ r.top = r.original_top
Unprimed(r) == r.start = NULL /\ r.top = NULL /\ r.end = NULL

C2_ConstructedEntries ==
  (phase = "primed" /\ gpuOps = 0) =>
    /\ Len(pool) = num_donor_threads
    /\ \A d \in 1..num_donor_threads :
         /\ cur_tlab_infos[d] = d - 1
         /\ Rec(d - 1).donor_thread = d
         /\ Ordered(Rec(d - 1)) \/ Unprimed(Rec(d - 1))

\* C2 where the arena holds a record for every donor thread.
C2_InsideArena ==
  (phase = "primed" /\ gpuOps = 0 /\ max_tlab_infos >= num_donor_threads) =>
    /\ Len(pool) = num_donor_threads
    /\ \A d \in 1..num_donor_threads :
         /\ cur_tlab_infos[d] = d - 1
         /\ Rec(d - 1).donor_thread = d
         /\ Ordered(Rec(d - 1)) \/ Unprimed(Rec(d - 1))

\* C3: once the cursor is bumped past the end of the arena, the records handed out are
\* exactly those of the arena, and no record at an index >= capacity is handed out,
\* written or visited.
C3_NoRecordOutsideArena ==
  /\ (phase = "primed" /\ pool_next > max_tlab_infos) =>
       /\ Len(pool) = max_tlab_infos
       /\ \A d \in 1..num_donor_threads : InArena(cur_tlab_infos[d])
  /\ oob = {}
  /\ \A k \in 1..Len(cleanupLog) : InArena(cleanupLog[k].index)

\* C3 where the arena holds a record for every donor thread.
C3_InsideArena ==
  max_tlab_infos >= num_donor_threads =>
    /\ (phase = "primed" /\ pool_next > max_tlab_infos) =>
         /\ Len(pool) = max_tlab_infos
         /\ \A d \in 1..num_donor_threads : InArena(cur_tlab_infos[d])
    /\ oob = {}
    /\ \A k \in 1..Len(cleanupLog) : InArena(cleanupLog[k].index)

\* C10: the bytes-allocated total of postKernelCleanup is the sum, over the regions
\* within the iteration bound with non-null start, of final top - original top, the
\* final top being the last good top of a region that overflowed and the top
\* otherwise.
FinalTop(r) == IF r.top > r.end THEN r.last_good_top ELSE r.top

RECURSIVE SumAllocated(_, _)
SumAllocated(records, n) ==
  IF n = 0 THEN 0
  ELSE SumAllocated(records, n - 1)
       + (IF records[n].start # NULL
            THEN FinalTop(records[n]) - records[n].original_top ELSE 0)

C10_BytesAllocated ==
  [][CleanupStep =>
       bytesAllocated' = SumAllocated(pool, MIN2(pool_next, max_tlab_infos))]_vars

\* C10's case: a cleanup that met a region that overflowed, one that did not and
\* was allocated from, and one with NULL start.
C10_Witness ==
  /\ phase = "cleaned"
  /\ bytesAllocated > 0
  /\ \E k \in 1..Len(cleanupLog) : cleanupLog[k].overflowed
  /\ \E k \in 1..Len(cleanupLog) :
       cleanupLog[k].visited /\ ~cleanupLog[k].overflowed /\ cleanupLog[k].delta > 0
  /\ \E k \in 1..Len(cleanupLog) : ~cleanupLog[k].visited

\* C11: for a region within the iteration bound whose start is NULL, postKernelCleanup
\* leaves the region's fields as they were, makes no call on the donor thread's
\* buffer (no fill, no make_parsable) and adds nothing to the bytes allocated; a donor
\* thread all of whose regions have a NULL start keeps its buffer. This holds of every
\* cleanup, the first and a repeated one.
IterationBound == MIN2(pool_next, max_tlab_infos)

C11_NullStartNoOp ==
  [][CleanupStep =>
       /\ Len(cleanupLog') = IterationBound
       /\ \A i \in 0..(IterationBound - 1) :
            Rec(i).start = NULL =>
              /\ pool'[i + 1] = Rec(i)
              /\ cleanupLog'[i + 1].index = i
              /\ ~cleanupLog'[i + 1].visited
              /\ cleanupLog'[i + 1].tlab_calls = <<>>
              /\ cleanupLog'[i + 1].delta = 0
       /\ \A d \in Donors :
            (\A i \in 0..(IterationBound - 1) :
               Rec(i).donor_thread = d => Rec(i).start = NULL)
              => tlabs'[d] = tlabs[d]]_vars

\* C11's case: a second cleanup has met a region with NULL start next to one that was
\* written back.
C11_Witness ==
  /\ cleanups = 2
  /\ \E k \in 1..Len(cleanupLog) : ~cleanupLog[k].visited
  /\ \E k \in 1..Len(cleanupLog) : cleanupLog[k].visited

\* C12: between priming and postKernelCleanup no step writes a donor thread's buffer,
\* and the top of a region is written by the GPU only; the GPU writes a top only
\* between priming and the cleanup, never before the one or after the other, so no
\* step has both the host and the GPU writing a top.
GpuStep == gpuOps' # gpuOps
TopWritten ==
  \E i \in Written : i + 1 <= Len(pool') /\ pool'[i + 1].top # Rec(i).top

CallsNamed(calls, name) == {k \in 1..Len(calls) : calls[k] = name}
LastRegionOf(d, i) ==
  /\ Rec(i).donor_thread = d
  /\ Rec(i).start # NULL
  /\ \A j \in (i + 1)..(IterationBound - 1) :
       Rec(j).donor_thread = d => Rec(j).start = NULL
C20_WriteBackThenRetire ==
  [][CleanupStep =>
       /\ Len(cleanupLog') = IterationBound
       /\ \A i \in 0..(IterationBound - 1) :
            LET entry == cleanupLog'[i + 1]
                passed == Rec(i).top > Rec(i).end
            IN  /\ entry.index = i
                /\ Rec(i).start # NULL =>
                     /\ entry.donor = Rec(i).donor_thread
                     /\ Cardinality(CallsNamed(entry.tlab_calls, "fill")) = 1
                     /\ entry.fill[1] = Rec(i).start
                     /\ entry.fill[2] = pool'[i + 1].top
                     /\ entry.fill[2] = IF passed THEN Rec(i).last_good_top ELSE Rec(i).top
                     /\ Cardinality(CallsNamed(entry.tlab_calls, "make_parsable"))
                          = IF passed THEN 1 ELSE 0
                     /\ \A k \in CallsNamed(entry.tlab_calls, "make_parsable") :
                          \E j \in CallsNamed(entry.tlab_calls, "fill") : j < k
                     /\ (LastRegionOf(Rec(i).donor_thread, i) /\ ~passed) =>
                          /\ tlabs'[Rec(i).donor_thread].start = Rec(i).start
                          /\ tlabs'[Rec(i).donor_thread].top = Rec(i).top]_vars

\* C20's case: one cleanup has written back two regions of the same donor thread, of
\* which one overflowed.
C20_Witness ==
  /\ cleanups = 1
  /\ \E j, k \in 1..Len(cleanupLog) :
       /\ j # k
       /\ cleanupLog[j].donor = cleanupLog[k].donor
       /\ cleanupLog[j].visited /\ cleanupLog[k].visited
       /\ cleanupLog[j].overflowed
       /\ ~cleanupLog[k].overflowed

\* C21: postKernelCleanup leaves the pool cursor between the start and the end of the
\* arena, and visits exactly min(cursor, capacity) records, each once, in order and
\* none at an index >= capacity, however far the cursor was bumped past the end.
C21_CursorClamped ==
  [][CleanupStep =>
       /\ 0 <= pool_next' /\ pool_next' <= max_tlab_infos
       /\ pool_next' = IF pool_next <= max_tlab_infos THEN pool_next ELSE max_tlab_infos
       /\ Len(cleanupLog') = IF pool_next <= max_tlab_infos THEN pool_next
                             ELSE max_tlab_infos
       /\ \A k \in 1..Len(cleanupLog') :
            /\ cleanupLog'[k].index = k - 1
            /\ cleanupLog'[k].index < max_tlab_infos]_vars

\* C21's case: the arena held a record for every donor thread, the GPU bumped the
\* cursor past the end, and the cleanup visited the arena's records and no more.
C21_Witness ==
  /\ phase = "cleaned"
  /\ num_donor_threads <= max_tlab_infos
  /\ overflowAmount > 0
  /\ pool_next = max_tlab_infos
  /\ Len(cleanupLog) = max_tlab_infos

\* C21: the cursor passed the end by more than one record.
C21_FarWitness ==
  /\ phase = "cleaned"
  /\ num_donor_threads <= max_tlab_infos
  /\ overflowAmount > 1

\* C22: the constructor calls getNewTlabForDonorThread for donor thread i exactly when
\* the end of its buffer is NULL; the buffer of a thread whose end is not NULL is left
\* as it is; when the refill fails the constructor still completes, the thread's
\* buffer is not filled with a new region, and the thread's region entry holds the
\* start, top and end of the buffer as the retire step left it.
ConstructStep == phase = "start" /\ phase' = "primed"
RefillsOf(i, refills) == {k \in 1..Len(refills) : refills[k].donor = i}
RefillFailed(i, refills) == \E k \in RefillsOf(i, refills) : ~refills[k].success
SnapshotOf(r, tlab) == r.start = tlab.start /\ r.top = tlab.top /\ r.end = tlab.end
RefillRule(arenaHolds) ==
  \A i \in 1..num_donor_threads' :
    LET refills == ctor_locals'.refills
    IN  /\ Cardinality(RefillsOf(i, refills)) = IF tlabs[i].end = NULL THEN 1 ELSE 0
        /\ tlabs[i].end # NULL => tlabs'[i] = tlabs[i]
        /\ RefillFailed(i, refills) =>
             /\ tlabs'[i] = TlabClearBeforeAllocation(tlabs[i])
             /\ tlabs'[i].end = NULL
             /\ heapTop' = heapTop \/ \E j \in 1..num_donor_threads' :
                                       j # i /\ ~RefillFailed(j, refills)
             /\ cur_tlab_infos'[i] = i - 1
             /\ (arenaHolds \/ max_tlab_infos' >= num_donor_threads')
                  => SnapshotOf(pool'[i], tlabs'[i])
C22_RefillOnlyWhenEmpty == [][ConstructStep => RefillRule(TRUE)]_vars

\* C22 where the arena holds a record for every donor thread.
C22_InsideArena == [][ConstructStep => RefillRule(FALSE)]_vars

\* C22's case: of two donor threads one kept its buffer and the other's refill failed,
\* and the arena held a record for both.
C22_Witness ==
  /\ phase = "primed" /\ gpuOps = 0
  /\ num_donor_threads = 2
  /\ max_tlab_infos >= 2
  /\ \E i, j \in 1..2 :
       /\ RefillFailed(i, ctor_locals.refills)
       /\ RefillsOf(j, ctor_locals.refills) = {}
       /\ tlabs[i].end = NULL
       /\ tlabs[j].end # NULL

\* C24: for every region with non-null start that postKernelCleanup processes, the top
\* written back to the donor thread lies between the region's start and its end, also
\* for a region whose top was past its end (the last good top is written back),
\* whatever the GPU left in top and in the last good top.
\* With a GPU side that records the last good top whenever a top passes the end
\* (SpecTlab) this holds; it is checked under SpecTlabAnyTop.
C24_CommittedTopInRegion ==
  [][CleanupStep =>
       \A i \in 0..(IterationBound - 1) :
         Rec(i).start # NULL =>
           /\ cleanupLog'[i + 1].fill[1] = Rec(i).start
           /\ Rec(i).start <= cleanupLog'[i + 1].fill[2]
           /\ cleanupLog'[i + 1].fill[2] <= Rec(i).end]_vars

\* C25: the capacity computed at construction is at least the number of donor
\* threads, so that the records the constructor initialises (indices 0..N-1) and the
\* initial cursor (index N) lie within the arena, whatever the free heap bytes and the
\* desired region size.
C25_CapacityCoversDonors ==
  (phase = "primed" /\ gpuOps = 0) =>
    /\ max_tlab_infos >= num_donor_threads
    /\ \A d \in 1..num_donor_threads : cur_tlab_infos[d] < max_tlab_infos
    /\ pool_next <= max_tlab_infos
    /\ oob = {}

\* What the constructor does ensure: the records 0..N-1 are written and the cursor is
\* N, and they lie within the arena exactly when the quotient of the free heap bytes by
\* the region size is at least N, or the region size is 0.
C25_CoveredWhenHeapAllows ==
  (phase = "primed" /\ gpuOps = 0) =>
    /\ Len(pool) = num_donor_threads
    /\ pool_next = num_donor_threads
    /\ (oob = {}) <=>
         \/ ctor_locals.new_tlab_size = 0
         \/ ctor_locals.heap_bytes_free \div ctor_locals.new_tlab_size
              >= num_donor_threads

\* C26: when the GPU changes nothing between the construction and postKernelCleanup,
\* the cleanup leaves every donor thread's buffer with the start, top and end it had
\* when the constructor took its snapshot: the size passed to fill, (end - start) plus
\* the alignment reserve, gives back the end.
C26_RoundTrip ==
  [][(CleanupStep /\ gpuOps = 0) =>
       \A d \in 1..num_donor_threads :
         /\ tlabs'[d] = tlabs[d]
         /\ \A k \in 1..Len(cleanupLog') :
              (cleanupLog'[k].donor = d /\ cleanupLog'[k].visited) =>
                /\ cleanupLog'[k].fill[1] = tlabs[d].start
                /\ cleanupLog'[k].fill[2] = tlabs[d].top
                /\ PlusWords(tlabs[d].start, cleanupLog'[k].fill[3] - AlignmentReserve)
                     = tlabs[d].end]_vars

\* C26's case: a cleanup right after the construction has written back the region of
\* a donor thread that kept a partly used buffer and the region of one that was
\* refilled.
C26_Witness ==
  /\ phase = "cleaned" /\ gpuOps = 0 /\ cleanups = 1
  /\ \E j, k \in 1..Len(cleanupLog) :
       /\ cleanupLog[j].visited /\ cleanupLog[k].visited
       /\ RefillsOf(cleanupLog[j].donor, ctor_locals.refills) = {}
       /\ tlabs[cleanupLog[j].donor].top > tlabs[cleanupLog[j].donor].start
       /\ RefillsOf(cleanupLog[k].donor, ctor_locals.refills) # {}
       /\ tlabs[cleanupLog[k].donor].start # NULL

\* C27: after postKernelCleanup a donor thread's buffer is as its last region left it,
\* the last being the one of highest index within the iteration bound whose start is
\* not NULL and whose donor is that thread: the buffer holds that region's start and
\* committed top if its top was not past its end, and is retired (start, top and end
\* NULL) if it was; the thread's earlier regions do not count.
C27_LastRegionDecides ==
  [][CleanupStep =>
       \A d \in 1..num_donor_threads :
         \A i \in 0..(IterationBound - 1) :
           LastRegionOf(d, i) =>
             IF Rec(i).top > Rec(i).end
               THEN tlabs'[d] = NullTlab
               ELSE /\ tlabs'[d].start = Rec(i).start
                    /\ tlabs'[d].top = Rec(i).top
                    /\ tlabs'[d].top = pool'[i + 1].top
                    /\ tlabs'[d].end = Rec(i).end]_vars

\* C27's case: a donor thread's first region overflowed and its later region did not,
\* and the buffer holds the later region.
C27_Witness ==
  /\ phase = "cleaned" /\ cleanups = 1
  /\ \E j, k \in 1..Len(cleanupLog) :
       /\ j < k
       /\ cleanupLog[j].donor = cleanupLog[k].donor
       /\ cleanupLog[j].visited /\ cleanupLog[j].overflowed
       /\ cleanupLog[k].visited /\ ~cleanupLog[k].overflowed
       /\ tlabs[cleanupLog[k].donor].start = cleanupLog[k].fill[1]
       /\ \A l \in (k + 1)..Len(cleanupLog) :
            cleanupLog[l].donor = cleanupLog[k].donor => ~cleanupLog[l].visited

\* C27: the last region of a donor thread overflowed and the buffer is retired.
C27_RetiredWitness ==
  /\ phase = "cleaned" /\ cleanups = 1
  /\ \E k \in 1..Len(cleanupLog) :
       /\ cleanupLog[k].visited /\ cleanupLog[k].overflowed
       /\ tlabs[cleanupLog[k].donor] = NullTlab
       /\ \A l \in (k + 1)..Len(cleanupLog) :
            cleanupLog[l].donor = cleanupLog[k].donor => ~cleanupLog[l].visited

\* C28: a postKernelCleanup run again with no GPU step since the run before leaves
\* every region record and every donor thread's buffer as the run before left them,
\* the buffers it retired because of an overflow included.
RepeatedCleanup == CleanupStep /\ phase = "cleaned"
C28_Idempotent ==
  [][RepeatedCleanup =>
       /\ pool' = pool
       /\ pool_next' = pool_next
       /\ \A d \in 1..num_donor_threads : tlabs'[d] = tlabs[d]]_vars

\* C28 as the code has it: the repeated run leaves every region record and the cursor
\* as they were, and every donor buffer too, except the buffer of a thread whose last
\* region overflowed in the run before: that buffer, which the run before retired, is
\* filled again with the region's start, rolled-back top and end, and not retired.
RetiredByLastRun(d) ==
  \E k \in 1..Len(cleanupLog) :
    /\ cleanupLog[k].donor = d /\ cleanupLog[k].visited /\ cleanupLog[k].overflowed
    /\ \A l \in (k + 1)..Len(cleanupLog) :
         cleanupLog[l].donor = d => ~cleanupLog[l].visited
C28_IdempotentButForRetired ==
  [][RepeatedCleanup =>
       /\ pool' = pool
       /\ pool_next' = pool_next
       /\ \A d \in 1..num_donor_threads :
            IF RetiredByLastRun(d)
              THEN /\ tlabs[d] = NullTlab
                   /\ \E i \in 0..(IterationBound - 1) :
                        /\ LastRegionOf(d, i)
                        /\ tlabs'[d] = [start |-> Rec(i).start,
                                        top |-> Rec(i).last_good_top,
                                        end |-> Rec(i).end]
              ELSE tlabs'[d] = tlabs[d]]_vars

\* C28's case: two cleanups have run; a region that overflowed has its top at the last
\* good top, and its donor's buffer, retired by the first run, holds the region again.
C28_Witness ==
  /\ phase = "cleaned" /\ cleanups = 2
  /\ \E i \in 0..(IterationBound - 1) :
       /\ Rec(i).start # NULL
       /\ Rec(i).top = Rec(i).last_good_top
       /\ Rec(i).top > Rec(i).original_top
       /\ tlabs[Rec(i).donor_thread].start = Rec(i).start
       /\ tlabs[Rec(i).donor_thread].top = Rec(i).top

\* C17: once constructed, the pool capacity is the smaller of
\* heap_bytes_free / new_tlab_size (rounded down) and 64 times the number of
\* donor threads when new_tlab_size is not zero, and 8 times the number of
\* donor threads when it is zero.
Quotient == ctor_locals.heap_bytes_free \div ctor_locals.new_tlab_size
C17_Capacity ==
  phase # "start" =>
    IF ctor_locals.new_tlab_size # 0
      THEN /\ max_tlab_infos <= Quotient
           /\ max_tlab_infos <= 64 * num_donor_threads
           /\ max_tlab_infos \in {Quotient, 64 * num_donor_threads}
      ELSE max_tlab_infos = 8 * num_donor_threads

\* C17 witness: a constructed pool whose capacity the 64-per-donor cap decided.
C17_Witness ==
  /\ phase # "start"
  /\ ctor_locals.new_tlab_size # 0
  /\ Quotient > 64 * num_donor_threads
  /\ max_tlab_infos = 64 * num_donor_threads

\* C17: a pool whose capacity the free heap decided.
C17_QuotientWitness ==
  /\ phase # "start"
  /\ ctor_locals.new_tlab_size # 0
  /\ Quotient < 64 * num_donor_threads
  /\ Quotient > 0
  /\ max_tlab_infos = Quotient

\* C17: a pool built when no TLAB size could be computed, with much heap free.
C17_FallbackWitness ==
  /\ phase # "start"
  /\ ctor_locals.new_tlab_size = 0
  /\ ctor_locals.heap_bytes_free = HugeHeapFree
  /\ max_tlab_infos = 8 * num_donor_threads

(***************************************************************************)
(* The PTX kernel driver, gpu_ptx.cpp. A call of the interface issues CUDA *)
(* driver calls one after the other and returns at the first that does not *)
(* answer GRAAL_CUDA_SUCCESS. The driver's part of a state is              *)
(*   [live, stack, dctx, nctx, bufs, nbuf, destroys]                       *)
(* and a run adds [buffer, fn, log, failed].                               *)
(*                                                                         *)
(* The driver is the CUDA driver API: cuCtxCreate pushes the new context   *)
(* on the calling thread's stack, cuCtxSetCurrent replaces the top of the  *)
(* stack, cuCtxDestroy pops the context if it is the top. A call that      *)
(* needs a context fails when the current one is none or destroyed, and a  *)
(* launch fails unless the function's context is the current one.          *)
(***************************************************************************)
T_INT_BYTE_SIZE == 4
T_FLOAT_BYTE_SIZE == 4
T_DOUBLE_BYTE_SIZE == 8
T_LONG_BYTE_SIZE == 8
T_OBJECT_BYTE_SIZE == 8

NoBuffer == [id |-> 0, size |-> 0]

\* sizeof(gpu::Ptx::CUdeviceptr), an unsigned long long on a 64-bit build.
SizeofCUdeviceptr == 8
\* No return pointer was stored in the argument buffer.
NoOffset == 0 - 1

Top(stack) == IF stack = << >> THEN 0 ELSE stack[Len(stack)]
Pop(stack) == SubSeq(stack, 1, Len(stack) - 1)
HasCurrent(st) == Top(st.stack) \in st.live

\* Whether the driver can answer success to call c in state st.
DriverAccepts(c, st) ==
  CASE c.call = "cuCtxCreate" -> TRUE
    [] c.call = "cuCtxSetCurrent" -> st.dctx \in st.live
    [] c.call = "cuModuleLoadDataEx" -> HasCurrent(st)
    [] c.call = "cuModuleGetFunction" -> HasCurrent(st)
    [] c.call = "cuMemAlloc" -> HasCurrent(st)
    [] c.call = "cuLaunchKernel" -> HasCurrent(st) /\ Top(st.stack) = c.kernel
    [] c.call = "cuCtxSynchronize" -> HasCurrent(st)
    [] c.call = "cuMemcpyDtoH" -> st.buffer \in st.bufs
    [] c.call = "cuMemFree" -> st.buffer = NoBuffer \/ st.buffer \in st.bufs
    [] c.call = "cuCtxDestroy" -> st.dctx \in st.live

\* The state after call c answered success.
DriverEffect(c, st) ==
  CASE c.call = "cuCtxCreate" ->
         [st EXCEPT !.nctx = @ + 1, !.live = @ \cup {st.nctx + 1},
                    !.stack = Append(@, st.nctx + 1), !.dctx = st.nctx + 1]
    [] c.call = "cuCtxSetCurrent" -> [st EXCEPT !.stack = Append(Pop(@), st.dctx)]
    [] c.call = "cuModuleGetFunction" -> [st EXCEPT !.fn = Top(st.stack)]
    [] c.call = "cuMemAlloc" ->
         LET b == [id |-> st.nbuf + 1, size |-> c.size]
         IN  [st EXCEPT !.nbuf = @ + 1, !.bufs = @ \cup {b}, !.buffer = b]
    [] c.call = "cuMemFree" -> [st EXCEPT !.bufs = @ \ {st.buffer}]
    [] c.call = "cuCtxDestroy" ->
         [st EXCEPT !.live = @ \ {st.dctx},
                    !.stack = IF Top(@) = st.dctx THEN Pop(@) ELSE @]
    [] OTHER -> st

\* The state once call c is issued, whatever the driver answers.
DriverIssued(c, st) ==
  IF c.call = "cuCtxDestroy" /\ st.dctx # 0
    THEN [st EXCEPT !.destroys = [@ EXCEPT ![st.dctx] = @ + 1]]
    ELSE st

\* What a call leaves in the log: the call, its size argument, whether the context
\* of the kernel at hand was live when it was issued, and the driver's answer.
LogEntry(c, st, ok) ==
  [call |-> c.call, size |-> c.size, ctx_live |-> c.kernel \in st.live, ok |-> ok]

\* The calls from the k-th on; fail is the call the environment fails (0: none).
RECURSIVE RunDriverCallsIgnoringStatus(_, _, _, _)
RunDriverCallsIgnoringStatus(calls, k, fail, st) ==
  IF k > Len(calls) THEN st
  ELSE
    LET c == calls[k]
        ok == k # fail /\ DriverAccepts(c, st)
        logged == [DriverIssued(c, st) EXCEPT !.log = Append(@, LogEntry(c, st, ok))]
    IN  IF ok THEN RunDriverCallsIgnoringStatus(calls, k + 1, fail, DriverEffect(c, logged))
        ELSE RunDriverCallsIgnoringStatus(calls, k + 1, fail, [logged EXCEPT !.failed = TRUE])

\* As RunDriverCalls, but a failed call is followed by the releases that were to come.
IsRelease(c) == c.call \in {"cuMemFree", "cuCtxDestroy"}
RECURSIVE RunDriverCallsReleasingOnFailure(_, _, _, _)
RunDriverCallsReleasingOnFailure(calls, k, fail, st) ==
  IF k > Len(calls) THEN st
  ELSE
    LET c == calls[k]
        ok == k # fail /\ DriverAccepts(c, st)
        logged == [DriverIssued(c, st) EXCEPT !.log = Append(@, LogEntry(c, st, ok))]
    IN  IF ok THEN RunDriverCallsReleasingOnFailure(calls, k + 1, fail, DriverEffect(c, logged))
        ELSE RunDriverCallsIgnoringStatus(
               SelectSeq(SubSeq(calls, k + 1, Len(calls)), IsRelease), 1, 0,
               [logged EXCEPT !.failed = TRUE])

RECURSIVE RunDriverCalls(_, _, _, _)
RunDriverCalls(calls, k, fail, st) ==
  IF k > Len(calls) THEN st
  ELSE
    LET c == calls[k]
        ok == k # fail /\ DriverAccepts(c, st)
        logged == [DriverIssued(c, st) EXCEPT !.log = Append(@, LogEntry(c, st, ok))]
    IN  IF ok THEN RunDriverCalls(calls, k + 1, fail, DriverEffect(c, logged))
        ELSE [logged EXCEPT !.failed = TRUE]

DriverCall(name, size, kernel) == [call |-> name, size |-> size, kernel |-> kernel]

\* The run's state at the entry of a call of the interface, whose return buffer
\* (if the caller allocated one) is buffer.
EntryState(buffer) ==
  [live |-> live_contexts, stack |-> context_stack, dctx |-> device_context,
   nctx |-> ctx_count, bufs |-> device_buffers, nbuf |-> buf_count,
   destroys |-> destroy_calls, buffer |-> buffer, fn |-> 0, log |-> <<>>,
   failed |-> FALSE]

\* The driver's state when the call returns.
Return(st) ==
  /\ live_contexts' = st.live
  /\ context_stack' = st.stack
  /\ device_context' = st.dctx
  /\ ctx_count' = st.nctx
  /\ device_buffers' = st.bufs
  /\ buf_count' = st.nbuf
  /\ destroy_calls' = st.destroys

\* gpu::Ptx::generate_kernel
GenerateKernelCalls ==
  << DriverCall("cuCtxCreate", 0, 0), DriverCall("cuCtxSetCurrent", 0, 0),
     DriverCall("cuModuleLoadDataEx", 0, 0), DriverCall("cuModuleGetFunction", 0, 0) >>

GenerateKernel ==
  /\ calls_made < MaxCalls
  /\ ctx_count < MaxContexts
  /\ \E fail \in 0..Len(GenerateKernelCalls) :
       LET st == RunDriverCalls(GenerateKernelCalls, 1, fail, EntryState(NoBuffer))
           cu_function == IF st.failed THEN 0 ELSE st.fn
       IN  /\ Return(st)
           /\ functions' = IF cu_function # 0 THEN functions \cup {cu_function}
                           ELSE functions
           /\ last' = [op |-> "generate_kernel", kernel |-> 0, ret_type |-> "none",
                       ret_size |-> 0, alloc_size |-> 0, buffer |-> NoBuffer,
                       calls |-> st.log, failed |-> st.failed, ret |-> cu_function,
                       exceptions |-> 0, args_size |-> 0, ret_ptr_offset |-> NoOffset]
  /\ calls_made' = calls_made + 1
  /\ UNCHANGED <<tlabVars, devVars>>

\* The kernel argument of an execute call: NULL, or a handle generate_kernel returned.
Kernels == {0} \cup functions

\* gpu::Ptx::execute_kernel_from_vm
EncodedReturnTypeSizes == {0, T_INT_BYTE_SIZE, T_LONG_BYTE_SIZE, 0 - T_OBJECT_BYTE_SIZE}

Abs(x) == IF x < 0 THEN 0 - x ELSE x

FromVmCopySize(isObjectReturn, returnTypeSize) ==
  IF isObjectReturn THEN T_OBJECT_BYTE_SIZE ELSE T_LONG_BYTE_SIZE

ExecuteKernelFromVmCalls(kernel, encodedReturnTypeSize) ==
  LET isObjectReturn == encodedReturnTypeSize < 0
      returnTypeSize == Abs(encodedReturnTypeSize)
  IN  (IF returnTypeSize # 0
         THEN << DriverCall("cuMemAlloc", returnTypeSize, kernel) >> ELSE << >>)
      \o << DriverCall("cuLaunchKernel", 0, kernel),
            DriverCall("cuCtxSynchronize", 0, kernel) >>
      \o (IF isObjectReturn \/ returnTypeSize > 0
            THEN << DriverCall("cuMemcpyDtoH",
                               FromVmCopySize(isObjectReturn, returnTypeSize), kernel) >>
            ELSE << >>)
      \o (IF returnTypeSize # 0
            THEN << DriverCall("cuMemFree", 0, kernel) >> ELSE << >>)
      \o << DriverCall("cuCtxDestroy", 0, kernel) >>

\* SharedRuntime::throw_and_post_jvmti_exception calls of one invocation.
FromVmExceptions(kernel, failed) == IF kernel = 0 \/ failed THEN 1 ELSE 0

\* Line 398: the place returnValuePtr points to, as a byte offset into the argument
\* buffer. The cast to CUdeviceptr* binds before the additions, which therefore count
\* in units of sizeof(CUdeviceptr).
ReturnValuePtrOffset(parametersAndReturnValueBufferSize) ==
  SizeofCUdeviceptr * (parametersAndReturnValueBufferSize - SizeofCUdeviceptr)

\* The sizes of the argument buffer: room for the return pointer and up to
\* MaxArgSlots - 1 arguments of pointer size, or an int more.
ArgBufferSizes ==
  {SizeofCUdeviceptr * k : k \in 1..MaxArgSlots}
    \cup {SizeofCUdeviceptr * k + T_INT_BYTE_SIZE : k \in 1..(MaxArgSlots - 1)}

ExecuteKernelFromVm ==
  /\ calls_made < MaxCalls
  /\ \E kernel \in Kernels, encodedReturnTypeSize \in EncodedReturnTypeSizes,
        parametersAndReturnValueBufferSize \in ArgBufferSizes :
       LET calls == IF kernel = 0 THEN << >>
                    ELSE ExecuteKernelFromVmCalls(kernel, encodedReturnTypeSize)
       IN  \E fail \in 0..Len(calls), value \in {0, 1} :
             LET st == RunDriverCalls(calls, 1, fail, EntryState(NoBuffer))
                 failed == kernel = 0 \/ st.failed
                 \* lines 390-399: the pointer is stored once cuMemAlloc has succeeded
                 stored == /\ kernel # 0
                           /\ encodedReturnTypeSize # 0
                           /\ st.log[1].ok
             IN  /\ failed => value = 0
                 \* a size that is not read does not multiply the states
                 /\ ~stored => parametersAndReturnValueBufferSize = SizeofCUdeviceptr
                 /\ Return(st)
                 /\ last' = [op |-> "execute_kernel_from_vm", kernel |-> kernel,
                             ret_type |-> IF encodedReturnTypeSize = 0 THEN "T_VOID"
                                          ELSE IF encodedReturnTypeSize < 0 THEN "T_OBJECT"
                                          ELSE "primitive",
                             ret_size |-> Abs(encodedReturnTypeSize),
                             alloc_size |-> st.buffer.size, buffer |-> st.buffer,
                             calls |-> st.log, failed |-> failed,
                             ret |-> IF failed THEN 0 ELSE value,
                             exceptions |-> FromVmExceptions(kernel, st.failed),
                             args_size |-> parametersAndReturnValueBufferSize,
                             ret_ptr_offset |->
                               IF stored
                                 THEN ReturnValuePtrOffset(parametersAndReturnValueBufferSize)
                                 ELSE NoOffset]
  /\ calls_made' = calls_made + 1
  /\ UNCHANGED functions
  /\ UNCHANGED <<tlabVars, devVars>>

\* gpu::Ptx::execute_warp (and execute_kernel, which calls it with dimensions 1,1,1)
ReturnTypes == {"T_INT", "T_BOOLEAN", "T_FLOAT", "T_DOUBLE", "T_LONG", "T_VOID", "T_OBJECT"}

\* The size execute_warp's switch copies for a return type; 0 where it copies nothing.
WarpCopySize(return_type) ==
  CASE return_type = "T_INT" -> T_INT_BYTE_SIZE
    [] return_type = "T_BOOLEAN" -> T_INT_BYTE_SIZE
    [] return_type = "T_FLOAT" -> T_FLOAT_BYTE_SIZE
    [] return_type = "T_DOUBLE" -> T_DOUBLE_BYTE_SIZE
    [] return_type = "T_LONG" -> T_LONG_BYTE_SIZE
    [] OTHER -> 0

\* The calls of execute_warp with the context destroyed before the buffer is freed.
ExecuteWarpCallsDestroyFirst(kernel, return_type) ==
  << DriverCall("cuLaunchKernel", 0, kernel), DriverCall("cuCtxSynchronize", 0, kernel) >>
  \o (IF WarpCopySize(return_type) # 0
        THEN << DriverCall("cuMemcpyDtoH", WarpCopySize(return_type), kernel) >>
        ELSE << >>)
  \o << DriverCall("cuCtxDestroy", 0, kernel), DriverCall("cuMemFree", 0, kernel) >>

ExecuteWarpCalls(kernel, return_type) ==
  << DriverCall("cuLaunchKernel", 0, kernel), DriverCall("cuCtxSynchronize", 0, kernel) >>
  \o (IF WarpCopySize(return_type) # 0
        THEN << DriverCall("cuMemcpyDtoH", WarpCopySize(return_type), kernel) >>
        ELSE << >>)
  \o << DriverCall("cuMemFree", 0, kernel), DriverCall("cuCtxDestroy", 0, kernel) >>

\* ptxka._dev_return_value: the caller of execute_warp allocated the return slot of a
\* non-void kernel while it marshalled the arguments.
WarpReturnSlot(return_type) ==
  IF return_type # "T_VOID" /\ Top(context_stack) \in live_contexts
    THEN [id |-> buf_count + 1,
          size |-> IF return_type = "T_OBJECT" THEN T_OBJECT_BYTE_SIZE
                   ELSE WarpCopySize(return_type)]
    ELSE NoBuffer

ExecuteWarp ==
  /\ calls_made < MaxCalls
  /\ \E kernel \in Kernels, return_type \in ReturnTypes :
       LET calls == IF kernel = 0 THEN << >> ELSE ExecuteWarpCalls(kernel, return_type)
           slot == IF kernel = 0 THEN NoBuffer ELSE WarpReturnSlot(return_type)
           entry == IF slot = NoBuffer THEN EntryState(NoBuffer)
                    ELSE [EntryState(slot) EXCEPT !.bufs = @ \cup {slot}, !.nbuf = @ + 1]
       IN  \E fail \in 0..Len(calls) :
             LET st == RunDriverCalls(calls, 1, fail, entry)
                 failed == kernel = 0 \/ st.failed
             IN  /\ Return(st)
                 /\ last' = [op |-> "execute_warp", kernel |-> kernel,
                             ret_type |-> return_type, ret_size |-> WarpCopySize(return_type),
                             alloc_size |-> slot.size, buffer |-> slot,
                             calls |-> st.log, failed |-> failed,
                             ret |-> IF failed THEN 0 ELSE 1,
                             exceptions |-> 0, args_size |-> 0, ret_ptr_offset |-> NoOffset]
  /\ calls_made' = calls_made + 1
  /\ UNCHANGED functions
  /\ UNCHANGED <<tlabVars, devVars>>

InitPtx ==
  /\ device_context = 0
  /\ live_contexts = {}
  /\ context_stack = << >>
  /\ ctx_count = 0
  /\ functions = {}
  /\ device_buffers = {}
  /\ buf_count = 0
  /\ destroy_calls = [c \in 1..MaxContexts |-> 0]
  /\ last = [op |-> "none", kernel |-> 0, ret_type |-> "none", ret_size |-> 0,
             alloc_size |-> 0, buffer |-> NoBuffer, calls |-> << >>, failed |-> FALSE,
             ret |-> 0, exceptions |-> 0, args_size |-> 0, ret_ptr_offset |-> NoOffset]
  /\ calls_made = 0

(***************************************************************************)
(* Claims about the PTX kernel driver, checked under SpecPtx.              *)
(***************************************************************************)
Executes == {"execute_kernel_from_vm", "execute_warp"}
LastCalls == 1..Len(last.calls)
Issued(name) == \E k \in LastCalls : last.calls[k].call = name
FailedAt(name) ==
  /\ last.calls # << >>
  /\ last.calls[Len(last.calls)].call = name
  /\ ~last.calls[Len(last.calls)].ok

\* C4: in any sequence of generate_kernel and execute calls, launch, synchronize and
\* result copy are only issued while the kernel's context is live, and cuCtxDestroy is
\* not issued more than once on a context.
C4_ContextLivePerExecute ==
  /\ last.op \in Executes =>
       \A k \in LastCalls :
         last.calls[k].call \in {"cuLaunchKernel", "cuCtxSynchronize", "cuMemcpyDtoH"}
           => last.calls[k].ctx_live
  /\ \A c \in DOMAIN destroy_calls : destroy_calls[c] <= 1

\* C5: when the launch fails in an execute call, neither the kernel's context nor the
\* return buffer of the call is held when the call returns.
C5_NoLeakOnLaunchFailure ==
  (last.op \in Executes /\ FailedAt("cuLaunchKernel")) =>
    /\ last.kernel \notin live_contexts
    /\ last.buffer \notin device_buffers

\* C6: when generate_kernel fails after it created the context, it issues a release of
\* the context before it returns.
C6_GenerateReleasesOnFailure ==
  (last.op = "generate_kernel" /\ last.failed /\ last.calls[1].ok) =>
    /\ Issued("cuCtxDestroy")
    /\ device_context \notin live_contexts

\* C7: an execute call with a void return type issues no cuMemAlloc and no cuMemFree.
C7_VoidNeverAllocatesOrFrees ==
  (last.op \in Executes /\ last.ret_type = "T_VOID") =>
    /\ ~Issued("cuMemAlloc")
    /\ ~Issued("cuMemFree")

\* C8: in an execute call no driver call is issued after one that did not answer
\* success, and the failure is surfaced: execute_warp returns false, and
\* execute_kernel_from_vm posts exactly one exception and returns 0.
C8_FailureStopsAndSurfaces ==
  last.op \in Executes =>
    /\ \A k \in LastCalls : k < Len(last.calls) => last.calls[k].ok
    /\ (\E k \in LastCalls : ~last.calls[k].ok) =>
         /\ last.ret = 0
         /\ last.op = "execute_kernel_from_vm" => last.exceptions = 1

\* C8's case: execute_kernel_from_vm has allocated, launched and synchronized, and the
\* result copy fails.
C8_Witness ==
  /\ last.op = "execute_kernel_from_vm"
  /\ FailedAt("cuMemcpyDtoH")
  /\ Len(last.calls) = 4
  /\ last.exceptions = 1

\* C9: the bytes copied from the device return slot are the size of the return type,
\* and so no more than the bytes allocated for the slot in that call.
C9_CopySizeWithinSlot ==
  last.op \in Executes =>
    \A k \in LastCalls :
      last.calls[k].call = "cuMemcpyDtoH" =>
        /\ last.calls[k].size = last.ret_size
        /\ last.calls[k].size <= last.alloc_size

\* C18: when the device-to-host copy of the result fails in an execute call, the
\* call returns the failure (execute_warp false; execute_kernel_from_vm 0 with one
\* exception posted) and has issued neither cuMemFree nor cuCtxDestroy.
CopyFailed == \E k \in LastCalls : last.calls[k].call = "cuMemcpyDtoH" /\ ~last.calls[k].ok
C18_CopyFailureReleasesNothing ==
  (last.op \in Executes /\ CopyFailed) =>
    /\ last.ret = 0
    /\ last.failed
    /\ last.op = "execute_kernel_from_vm" => last.exceptions = 1
    /\ ~Issued("cuMemFree")
    /\ ~Issued("cuCtxDestroy")

\* C18's case: execute_warp has launched and synchronized, and the result copy fails
\* while the kernel's context is live.
C18_Witness ==
  /\ last.op = "execute_warp"
  /\ FailedAt("cuMemcpyDtoH")
  /\ Len(last.calls) = 3
  /\ last.calls[3].ctx_live
  /\ last.kernel \in live_contexts

\* C19: in a generate_kernel call and the execute call that follows it, the driver
\* calls are issued in the order cuCtxCreate, cuCtxSetCurrent, cuModuleLoadDataEx,
\* cuModuleGetFunction, cuLaunchKernel, cuCtxSynchronize, cuMemcpyDtoH, cuMemFree,
\* cuCtxDestroy; an execute call issues cuMemcpyDtoH only after a cuCtxSynchronize
\* that answered success in the same call, issues cuLaunchKernel only for a non-null
\* handle that generate_kernel returned, and, when it succeeds, has cuCtxDestroy as
\* its last driver call.
LifecycleOrder ==
  << "cuCtxCreate", "cuCtxSetCurrent", "cuModuleLoadDataEx", "cuModuleGetFunction",
     "cuLaunchKernel", "cuCtxSynchronize", "cuMemcpyDtoH", "cuMemFree", "cuCtxDestroy" >>
\* The place of a call in the order; 0 for a call the order does not list.
Rank(name) ==
  IF \E i \in 1..Len(LifecycleOrder) : LifecycleOrder[i] = name
    THEN CHOOSE i \in 1..Len(LifecycleOrder) : LifecycleOrder[i] = name
    ELSE 0
InLifecycleOrder(log) ==
  \A j, k \in 1..Len(log) :
    (j < k /\ Rank(log[j].call) # 0 /\ Rank(log[k].call) # 0)
      => Rank(log[j].call) < Rank(log[k].call)
ExecuteStep == calls_made' # calls_made /\ last'.op \in Executes
C19_LifecycleOrder ==
  [][ExecuteStep =>
       LET before == IF last.op = "generate_kernel" THEN last.calls ELSE << >>
           log == last'.calls
       IN  /\ InLifecycleOrder(before \o log)
           /\ \A k \in 1..Len(log) :
                log[k].call = "cuMemcpyDtoH" =>
                  \E j \in 1..(k - 1) : log[j].call = "cuCtxSynchronize" /\ log[j].ok
           /\ (\E k \in 1..Len(log) : log[k].call = "cuLaunchKernel") =>
                (last'.kernel # 0 /\ last'.kernel \in functions)
           /\ ~last'.failed =>
                /\ log # << >>
                /\ log[Len(log)].call = "cuCtxDestroy"
                /\ log[Len(log)].ok]_vars

\* C19's case: generate_kernel succeeded and the execute call after it ran to its
\* end, with a result copied and the return buffer freed.
C19_Witness ==
  /\ calls_made = 2
  /\ last.op = "execute_kernel_from_vm"
  /\ ~last.failed
  /\ Len(last.calls) = 6
  /\ last.calls[4].call = "cuMemcpyDtoH"
  /\ last.calls[6].call = "cuCtxDestroy"

\* C19: the same for execute_warp.
C19_WarpWitness ==
  /\ calls_made = 2
  /\ last.op = "execute_warp"
  /\ ~last.failed
  /\ Len(last.calls) = 5

\* C23: when execute_kernel_from_vm has allocated a return slot, it stores the device
\* return pointer at byte offset bufferSize - sizeof(device pointer) of the argument
\* buffer, the last bytes of the buffer, which lie inside it.
PointerStored == last.op = "execute_kernel_from_vm" /\ last.ret_ptr_offset # NoOffset
C23_ReturnPointerInLastBytes ==
  PointerStored =>
    /\ last.ret_ptr_offset = last.args_size - SizeofCUdeviceptr
    /\ 0 <= last.ret_ptr_offset
    /\ last.ret_ptr_offset + SizeofCUdeviceptr <= last.args_size

\* What line 398 computes: bufferSize - sizeof(device pointer) counted in device
\* pointers, not in bytes; inside the buffer only when the buffer holds nothing
\* but the return pointer.
C23_OffsetInPointers ==
  PointerStored =>
    /\ last.ret_ptr_offset = SizeofCUdeviceptr * (last.args_size - SizeofCUdeviceptr)
    /\ (last.ret_ptr_offset + SizeofCUdeviceptr <= last.args_size)
         <=> last.args_size = SizeofCUdeviceptr

\* C29: in every state reached by generate_kernel and execute calls, a context that
\* has been created and not destroyed is the one gpu::Ptx::_device_context refers to:
\* there is at most one live context and none that can no longer be destroyed, also
\* after two generate_kernel calls with no successful execute call between them.
C29_NoOrphanContext ==
  /\ \A c \in live_contexts : c = device_context
  /\ Cardinality(live_contexts) <= 1

\* What does hold: the slot refers to the context created last, whether or not the
\* contexts created before it were destroyed.
C29_SlotHoldsLatest == device_context = ctx_count

(***************************************************************************)
(* The binding of the driver library, gpu::Ptx::probe_linkage. Each        *)
(* LOOKUP_CUDA_FUNCTION assigns the result of os::dll_lookup to the static *)
(* pointer and returns 0 from probe_linkage when it is NULL.               *)
(***************************************************************************)
EntryPoints ==
  << "cuda_cu_init", "cuda_cu_ctx_synchronize", "cuda_cu_ctx_set_current",
     "cuda_cu_device_get_count", "cuda_cu_device_get_name", "cuda_cu_device_get",
     "cuda_cu_device_compute_capability", "cuda_cu_device_get_attribute",
     "cuda_cu_module_get_function", "cuda_cu_module_load_data_ex",
     "cuda_cu_launch_kernel", "cuda_cu_mem_host_register",
     "cuda_cu_mem_host_unregister", "cuda_cu_ctx_create", "cuda_cu_ctx_destroy",
     "cuda_cu_memalloc", "cuda_cu_memfree", "cuda_cu_memcpy_htod",
     "cuda_cu_memcpy_dtoh", "cuda_cu_mem_host_get_device_pointer" >>

Catalog == 1..Len(EntryPoints)

NoPointers == [i \in Catalog |-> FALSE]
AllPointers == [i \in Catalog |-> TRUE]

\* The lookups from the k-th on; exported[i] says whether the library exports entry
\* point i. The result is [ptrs, ok].
RECURSIVE LookupCudaFunctions(_, _, _)
LookupCudaFunctions(ptrs, k, exported) ==
  IF k > Len(EntryPoints) THEN [ptrs |-> ptrs, ok |-> TRUE]
  ELSE
    LET assigned == [ptrs EXCEPT ![k] = exported[k]]
    IN  IF ~exported[k] THEN [ptrs |-> assigned, ok |-> FALSE]
        ELSE LookupCudaFunctions(assigned, k + 1, exported)

\* The libraries os::dll_load may find: one that exports everything but entry point
\* missing (0: everything).
Exports(missing) == [i \in Catalog |-> i # missing]

NoDevLast ==
  [op |-> "none", opened |-> FALSE, missing |-> 0, ptrs_before |-> NoPointers,
   calls |-> << >>, failed |-> FALSE, ret |-> 0, device_before |-> 0,
   device_count |-> 0, handle0 |-> 0, major |-> 0, minor |-> 0, nmp |-> 0]

ProbeLinkage ==
  /\ dev_calls < MaxBinds
  /\ \E opened \in BOOLEAN, missing \in 0..Len(EntryPoints) :
       LET r == IF opened THEN LookupCudaFunctions(fn_ptrs, 1, Exports(missing))
                ELSE [ptrs |-> fn_ptrs, ok |-> FALSE]
       IN  /\ ~opened => missing = 0
           /\ fn_ptrs' = r.ptrs
           /\ dev_last' = [NoDevLast EXCEPT !.op = "probe_linkage", !.opened = opened,
                                            !.missing = missing,
                                            !.ptrs_before = fn_ptrs,
                                            !.failed = ~r.ok,
                                            !.ret = IF r.ok THEN 1 ELSE 0]
  /\ dev_calls' = dev_calls + 1
  /\ UNCHANGED cu_device
  /\ UNCHANGED <<tlabVars, ptxVars>>

InitDev ==
  /\ fn_ptrs = NoPointers
  /\ cu_device = 0
  /\ dev_last = NoDevLast
  /\ dev_calls = 0

\* C13: probe_linkage fails when the library cannot be opened or an entry point is
\* missing, and after a failed probe_linkage no entry-point pointer is populated.
C13_NoPartialBinding ==
  dev_last.op = "probe_linkage" =>
    /\ (~dev_last.opened \/ dev_last.missing # 0) => dev_last.ret = 0
    /\ dev_last.ret = 0 => \A i \in Catalog : ~fn_ptrs[i]

\* The part of C13 about the result alone: probe_linkage answers true exactly when
\* the library opened and exports every entry point, and then every pointer is set.
C13_FailsWhenIncomplete ==
  dev_last.op = "probe_linkage" =>
    /\ (dev_last.ret = 1) = (dev_last.opened /\ dev_last.missing = 0)
    /\ dev_last.ret = 1 => \A i \in Catalog : fn_ptrs[i]

(***************************************************************************)
(* The device session: gpu::Ptx::initialize_gpu, ncores and                *)
(* gpu::Ptx::total_cores. A call issues driver calls one after the other   *)
(* and returns at the first that does not answer GRAAL_CUDA_SUCCESS. The   *)
(* driver numbers its devices from ordinal 0 and hands out the handle      *)
(* base + ordinal for them.                                                *)
(***************************************************************************)
DeviceCall(name, arg) == [call |-> name, arg |-> arg]

HandleOf(base, ordinal) == base + ordinal

\* The calls from the k-th on. st = [cu_device, base, clobber, log, failed]; fail is
\* the call the driver fails (0: none); a failing cuDeviceGet may or may not have
\* written its result (clobber).
RECURSIVE RunDeviceCalls(_, _, _, _)
RunDeviceCalls(calls, k, fail, st) ==
  IF k > Len(calls) THEN st
  ELSE
    LET c == calls[k]
        ok == k # fail
        logged == [st EXCEPT !.log = Append(@, [call |-> c.call, arg |-> c.arg, ok |-> ok])]
        written == IF c.call = "cuDeviceGet" /\ (ok \/ st.clobber)
                     THEN [logged EXCEPT !.cu_device = HandleOf(st.base, c.arg)]
                     ELSE logged
    IN  IF ok THEN RunDeviceCalls(calls, k + 1, fail, written)
        ELSE [written EXCEPT !.failed = TRUE]

Populated(names) == \A i \in Catalog : EntryPoints[i] \in names => fn_ptrs[i]

\* gpu::Ptx::initialize_gpu, with the device at the last ordinal selected.
InitializeGpuCallsLastDevice(device_count) ==
  << DeviceCall("cuInit", 0), DeviceCall("cuDeviceGetCount", 0) >>
  \o (IF device_count = 0 THEN << >>
      ELSE << DeviceCall("cuDeviceGet", device_count - 1),
              DeviceCall("cuDeviceGetAttribute", "UNIFIED_ADDRESSING"),
              DeviceCall("cuDeviceGetName", 0) >>)

\* gpu::Ptx::initialize_gpu: the driver calls it makes when the count query answers
\* device_count.
InitializeGpuCalls(device_count) ==
  << DeviceCall("cuInit", 0), DeviceCall("cuDeviceGetCount", 0) >>
  \o (IF device_count = 0 THEN << >>
      ELSE << DeviceCall("cuDeviceGet", 0),
              DeviceCall("cuDeviceGetAttribute", "UNIFIED_ADDRESSING"),
              DeviceCall("cuDeviceGetName", 0) >>)

InitializeGpu ==
  /\ dev_calls < MaxDevCalls
  /\ Populated({"cuda_cu_init", "cuda_cu_device_get_count", "cuda_cu_device_get",
                "cuda_cu_device_get_attribute", "cuda_cu_device_get_name"})
  /\ \E device_count \in 0..MaxDevices, base \in 0..MaxHandle, clobber \in BOOLEAN :
       LET calls == InitializeGpuCalls(device_count)
       IN  \E fail \in 0..Len(calls) :
             LET st == RunDeviceCalls(calls, 1, fail,
                         [cu_device |-> cu_device, base |-> base, clobber |-> clobber,
                          log |-> << >>, failed |-> FALSE])
             IN  /\ clobber => fail = 3
                 /\ cu_device' = st.cu_device
                 /\ dev_last' = [NoDevLast EXCEPT
                                   !.op = "initialize_gpu", !.calls = st.log,
                                   !.failed = st.failed, !.device_before = cu_device,
                                   !.device_count = device_count,
                                   !.handle0 = HandleOf(base, 0),
                                   !.ret = IF st.failed \/ device_count = 0 THEN 0 ELSE 1]
  /\ dev_calls' = dev_calls + 1
  /\ UNCHANGED fn_ptrs
  /\ UNCHANGED <<tlabVars, ptxVars>>

\* ncores with the minor number left out of the device type.
ncoresByMajor(major, minor) ==
  CASE major = 1 -> 8
    [] major = 2 -> 32
    [] major = 3 -> 192
    [] OTHER -> 0

\* ncores: device_type = (major << 4) + minor, then the switch over it.
ncores(major, minor) ==
  LET device_type == major * 16 + minor
  IN  CASE device_type = 16 -> 8
        [] device_type = 17 -> 8
        [] device_type = 18 -> 8
        [] device_type = 19 -> 8
        [] device_type = 32 -> 32
        [] device_type = 33 -> 48
        [] device_type = 48 -> 192
        [] device_type = 53 -> 192
        [] OTHER -> 0

\* gpu::Ptx::total_cores: eight attribute queries, the first three of which read
\* minor, major and the multiprocessor count.
TotalCoresCalls ==
  << DeviceCall("cuDeviceGetAttribute", "COMPUTE_CAPABILITY_MINOR"),
     DeviceCall("cuDeviceGetAttribute", "COMPUTE_CAPABILITY_MAJOR"),
     DeviceCall("cuDeviceGetAttribute", "MULTIPROCESSOR_COUNT"),
     DeviceCall("cuDeviceGetAttribute", "MAX_THREADS_PER_BLOCK"),
     DeviceCall("cuDeviceGetAttribute", "WARP_SIZE"),
     DeviceCall("cuDeviceGetAttribute", "ASYNC_ENGINE_COUNT"),
     DeviceCall("cuDeviceGetAttribute", "CAN_MAP_HOST_MEMORY"),
     DeviceCall("cuDeviceGetAttribute", "CONCURRENT_KERNELS") >>

MultiprocessorCounts == {0, 1, MaxMultiprocessors}

TotalCores ==
  /\ dev_calls < MaxDevCalls
  /\ Populated({"cuda_cu_device_get_attribute"})
  /\ \E major \in 0..MaxMajor, minor \in 0..MaxMinor, nmp \in MultiprocessorCounts,
        fail \in 0..Len(TotalCoresCalls) :
       LET st == RunDeviceCalls(TotalCoresCalls, 1, fail,
                   [cu_device |-> cu_device, base |-> 0, clobber |-> FALSE,
                    log |-> << >>, failed |-> FALSE])
           total == nmp * ncores(major, minor)
       IN  \* a failing query is tried on one device only, a 3.0 with the most
           \* multiprocessors
           /\ fail # 0 => (major = 3 /\ minor = 0 /\ nmp = MaxMultiprocessors)
           /\ dev_last' = [NoDevLast EXCEPT
                             !.op = "total_cores", !.calls = st.log,
                             !.failed = st.failed, !.device_before = cu_device,
                             !.major = major, !.minor = minor, !.nmp = nmp,
                             !.ret = IF st.failed THEN 0 ELSE total]
  /\ dev_calls' = dev_calls + 1
  /\ UNCHANGED <<fn_ptrs, cu_device>>
  /\ UNCHANGED <<tlabVars, ptxVars>>

(***************************************************************************)
(* Claims about the device session, checked under SpecDevice.              *)
(***************************************************************************)
DevCalls == 1..Len(dev_last.calls)
DevIssued(name) == \E k \in DevCalls : dev_last.calls[k].call = name

\* C14: when a driver call of initialize_gpu answers non-success, initialize_gpu
\* returns false, issues no further driver call, and leaves _cu_device as it was
\* before the call.
C14_FailureLeavesDeviceUntouched ==
  (dev_last.op = "initialize_gpu" /\ dev_last.failed) =>
    /\ dev_last.ret = 0
    /\ \A k \in DevCalls : ~dev_last.calls[k].ok => k = Len(dev_last.calls)
    /\ cu_device = dev_last.device_before

\* The part of C14 about the calls alone.
C14_FailureStops ==
  (dev_last.op = "initialize_gpu" /\ dev_last.failed) =>
    /\ dev_last.ret = 0
    /\ \A k \in DevCalls : ~dev_last.calls[k].ok => k = Len(dev_last.calls)

\* C15: when the count query succeeds and reports zero devices, initialize_gpu returns
\* false and makes no device-get, attribute or name query; when initialize_gpu returns
\* true, the device it asked for and selected is the one at ordinal 0.
C15_ZeroDevicesAndOrdinalZero ==
  dev_last.op = "initialize_gpu" =>
    /\ (dev_last.device_count = 0 /\ DevIssued("cuDeviceGetCount")
          /\ \A k \in DevCalls : dev_last.calls[k].ok) =>
         /\ dev_last.ret = 0
         /\ dev_last.calls[Len(dev_last.calls)].call = "cuDeviceGetCount"
         /\ ~DevIssued("cuDeviceGet")
         /\ ~DevIssued("cuDeviceGetAttribute")
         /\ ~DevIssued("cuDeviceGetName")
    /\ dev_last.ret = 1 =>
         /\ dev_last.device_count > 0
         /\ cu_device = dev_last.handle0
         /\ \A k \in DevCalls :
              dev_last.calls[k].call = "cuDeviceGet" => dev_last.calls[k].arg = 0

\* C15's case: the driver reported two devices, its handle of the first is not what
\* _cu_device held, and initialize_gpu succeeded.
C15_Witness ==
  /\ dev_last.op = "initialize_gpu"
  /\ dev_last.ret = 1
  /\ dev_last.device_count = 2
  /\ dev_last.handle0 # dev_last.device_before

\* C15's other case: zero devices reported.
C15_ZeroWitness ==
  /\ dev_last.op = "initialize_gpu"
  /\ dev_last.device_count = 0
  /\ Len(dev_last.calls) = 2
  /\ dev_last.calls[2].ok

\* C16 as stated: 8 for every 1.x, 32 for 2.0, 48 for 2.1, 192 for 3.0 and 3.5, 0 for
\* every other pair, and total_cores returns multiprocessor count * cores.
StatedCores(major, minor) ==
  IF major = 1 THEN 8
  ELSE IF major = 2 /\ minor = 0 THEN 32
  ELSE IF major = 2 /\ minor = 1 THEN 48
  ELSE IF major = 3 /\ minor \in {0, 5} THEN 192
  ELSE 0

C16_CoresAsStated ==
  (dev_last.op = "total_cores" /\ ~dev_last.failed) =>
    dev_last.ret = dev_last.nmp * StatedCores(dev_last.major, dev_last.minor)

\* C16 amended: the lookup depends on the pair through 16 * major + minor only; read
\* as major.minor with minor below 16, it is 8 for 1.0 to 1.3, 32 for 2.0, 48 for 2.1,
\* 192 for 3.0 and 3.5 and 0 otherwise; total_cores returns multiprocessor count *
\* cores when all its attribute queries succeed, and 0 when one fails.
TableCores(device_type) ==
  LET hi == device_type \div 16
      lo == device_type % 16
  IN  IF hi = 1 /\ lo <= 3 THEN 8
      ELSE IF hi = 2 /\ lo = 0 THEN 32
      ELSE IF hi = 2 /\ lo = 1 THEN 48
      ELSE IF hi = 3 /\ lo \in {0, 5} THEN 192
      ELSE 0

C16_CoresByDeviceType ==
  dev_last.op = "total_cores" =>
    IF dev_last.failed THEN dev_last.ret = 0
    ELSE dev_last.ret = dev_last.nmp * TableCores(16 * dev_last.major + dev_last.minor)

\* C16's case: a 3.0 device with 15 multiprocessors has 2880 cores.
C16_Witness ==
  /\ dev_last.op = "total_cores"
  /\ ~dev_last.failed
  /\ dev_last.major = 3 /\ dev_last.minor = 0 /\ dev_last.nmp = 15
  /\ dev_last.ret = 2880

Init == InitTlab /\ InitPtx /\ InitDev

\* The PTX driver is run with the donor threads at rest.
InitPtxOnly == Init /\ tlabs = [t \in Donors |-> NullTlab]

\* The binding is run on its own, from the statics as the loader zeroed them.
InitBind == InitPtxOnly

NextTlab ==
  \/ Construct
  \/ GpuAllocate
  \/ GpuReserve
  \/ PostKernelCleanup

NextPtx ==
  \/ GenerateKernel
  \/ ExecuteKernelFromVm
  \/ ExecuteWarp

SpecTlab == Init /\ [][NextTlab]_vars

\* The donation with a GPU side that is held to nothing but the window.
NextTlabAnyTop ==
  \/ Construct
  \/ GpuAllocate
  \/ GpuReserve
  \/ GpuStoreTop
  \/ PostKernelCleanup

SpecTlabAnyTop == Init /\ [][NextTlabAnyTop]_vars

SpecPtx == InitPtxOnly /\ [][NextPtx]_vars

\* The device session is run after a probe_linkage that answered true.
InitDevice ==
  /\ InitTlab
  /\ tlabs = [t \in Donors |-> NullTlab]
  /\ InitPtx
  /\ fn_ptrs = AllPointers
  /\ cu_device = 0
  /\ dev_last = NoDevLast
  /\ dev_calls = 0

NextDevice ==
  \/ InitializeGpu
  \/ TotalCores

SpecDevice == InitDevice /\ [][NextDevice]_vars

NextBind == ProbeLinkage

SpecBind == InitBind /\ [][NextBind]_vars
====
